---- MODULE Spec2Model ----
(***************************************************************************)
(* The three example scripts of the repository as one state machine:       *)
(*   script 1 = 01-intro-to-ai-agents/code_samples/01-python-agent-...py   *)
(*   script 3 = 03-agentic-design-patterns/code_samples/03-python-...py    *)
(*   script 4 = 04-tool-use/code_samples/04-python-...-bookinghotel.py     *)
(* The driver (main) configures an agent, optionally opens a thread, sends *)
(* one user message and awaits the response; while it awaits, the remote   *)
(* model may ask for tool functions, whose bodies are modelled statement   *)
(* by statement, with the HTTP transport as the nondeterministic input.    *)
(* Text is a sequence of tokens; a Python value is [type, text] where text *)
(* is what str() renders for it.                                           *)
(***************************************************************************)
EXTENDS Integers, Sequences, FiniteSets, TLC

VARIABLES
    script,            \* which script runs: 1, 3 or 4
    pc,                \* the driver's position in main()
    trace,             \* the driver states visited so far, in order
    thread,            \* "none", or "open" once agent.get_new_thread() returned
    requests,          \* tool requests the remote model made in this conversation
    invocation_count,  \* per tool: bodies executed so far
    tool,              \* the tool whose invocation is in progress, or "none"
    tpc,               \* position inside the tool invocation
    args,              \* the arguments of the invocation in progress
    gets,              \* the GET requests the invocation has issued, in order
    inflight,          \* GET requests sent and not yet answered
    bodyRead,          \* how many times the invocation called response.json()
    hotel_response,    \* booking_hotel's `response` as requests.get gave it
    go_response,       \* booking_flight's `go_response`
    back_response,     \* booking_flight's `back_response`
    result,            \* booking_flight's local `result`
    ret,               \* what the invocation produced
    response,          \* the messages of the completed agent response
    printed            \* what the DISPLAY step printed

vars == <<script, pc, trace, thread, requests, invocation_count, tool, tpc, args,
          gets, inflight, bodyRead, hotel_response, go_response, back_response,
          result, ret, response, printed>>

toolVars == <<tool, tpc, args, gets, inflight, bodyRead, hotel_response,
              go_response, back_response, result, ret>>

driverVars == <<script, pc, trace, thread, response, printed>>

(***************************************************************************)
(* Bounds of the model.                                                    *)
(***************************************************************************)
\* tool requests the remote model may make during one agent.run
MaxToolRequests == 4

(***************************************************************************)
(* Python values and text.                                                 *)
(***************************************************************************)
Scripts == {1, 3, 4}

PyValue(t, x) == [type |-> t, text |-> x]

\* a str literal
PyStrLit(x) == PyValue("str", x)

\* str(v): a str object whose characters are v's rendering
PyStr(v) == PyValue("str", v.text)

PyNone == PyValue("NoneType", <<"None">>)

NoOutcome == [kind |-> "none", type |-> "none", text |-> <<>>]

Returned(v) == [kind |-> "return", type |-> v.type, text |-> v.text]

Raised(exc) == [kind |-> "raise", type |-> exc, text |-> <<>>]

Rejected == [kind |-> "rejected", type |-> "ToolException", text |-> <<>>]

\* whether the token sequence `needle` occurs in `hay` starting at index i
OccursAt(needle, hay, i) ==
    /\ i >= 1
    /\ i + Len(needle) - 1 <= Len(hay)
    /\ \A k \in 1..Len(needle) : hay[i + k - 1] = needle[k]

\* Python's `needle in hay`
Contains(needle, hay) == \E i \in 1..Len(hay) : OccursAt(needle, hay, i)

(***************************************************************************)
(* The HTTP transport: what requests.get can produce.                      *)
(***************************************************************************)
\* 201 stands for the success codes that are not 200
StatusCodes == {200, 201, 404, 500}

\* response bodies: not JSON at all, a JSON object with a `properties` list,
\* a JSON object with a `properties` string, a JSON object without
\* `properties`, a JSON array
Bodies == {"not_json", "obj_props_list", "obj_props_str", "obj_no_props", "array"}

Parseable(b) == b # "not_json"

\* the Python type response.json() gives
ParsedType(b) == IF b = "array" THEN "list" ELSE "dict"

HasProperties(b) == b \in {"obj_props_list", "obj_props_str"}

\* response.json()["properties"]
Properties(b) ==
    IF b = "obj_props_list"
    THEN PyValue("list", <<"[{'name': 'Hilton London'}]">>)
    ELSE PyValue("str", <<"Hilton London">>)

\* response.json() as a Python value
Parsed(b) ==
    CASE b = "obj_props_list" ->
            PyValue("dict", <<"{'properties': ", "[{'name': 'Hilton London'}]", "}">>)
      [] b = "obj_props_str" ->
            PyValue("dict", <<"{'properties': ", "'Hilton London'", "}">>)
      [] b = "obj_no_props" ->
            PyValue("dict", <<"{'error': 'no results'}">>)
      [] OTHER ->
            PyValue("list", <<"[{'flight': 'BA117'}]">>)

NoResponse == [net |-> "none", status |-> 0, body |-> "not_json"]

NetworkError == [net |-> "error", status |-> 0, body |-> "not_json"]

HttpResponses == [net : {"ok"}, status : StatusCodes, body : Bodies]

\* every outcome of one requests.get call
HttpOutcomes == HttpResponses \cup {NetworkError}

(***************************************************************************)
(* Destination picker (scripts 1 and 3).                                   *)
(***************************************************************************)
destinations01 ==
    << "Barcelona, Spain", "Paris, France", "Berlin, Germany", "Tokyo, Japan",
       "Sydney, Australia", "New York, USA", "Cairo, Egypt",
       "Cape Town, South Africa", "Rio de Janeiro, Brazil", "Bali, Indonesia" >>

destinations03 ==
    << "Barcelona, Spain", "Paris, France", "Berlin, Germany", "Tokyo, Japan",
       "Sydney, Australia", "New York, USA", "Cairo, Egypt",
       "Cape Town, South Africa", "Rio de Janeiro, Brazil", "Bali, Indonesia" >>

destinations(s) == IF s = 1 THEN destinations01 ELSE destinations03

\* random.randint(a, b): any integer N with a <= N <= b
randint(a, b) == a..b

\* the values randint(0, len(destinations) - 1) can take
DestinationIndexOffByOne(s) == randint(0, Len(destinations(s)))

DestinationIndex(s) == randint(0, Len(destinations(s)) - 1)

\* list[i] in Python: zero-based, negative indexes count from the end,
\* anything else raises IndexError
PyListItem(list, i) ==
    IF i >= 0 /\ i < Len(list) THEN Returned(PyStrLit(<<list[i + 1]>>))
    ELSE IF i < 0 /\ i >= -Len(list) THEN Returned(PyStrLit(<<list[Len(list) + i + 1]>>))
    ELSE Raised("IndexError")

(***************************************************************************)
(* Booking tools (script 4): arguments and query parameters.               *)
(***************************************************************************)
Airports == {"JFK", "LHR"}

Cities == {"London", "New York"}

HotelArgs ==
    [query : Cities, check_in_date : {"2026-02-20"}, check_out_date : {"2026-02-24"}]

FlightArgs ==
    [origin : Airports, destination : Airports,
     outbound_date : {"2026-02-20"}, return_date : {"2026-02-27"}]

NoArgs == [none |-> TRUE]

\* booking_hotel's `params`
HotelParams(a) ==
    [engine |-> "google_hotels", q |-> a.query,
     check_in_date |-> a.check_in_date, check_out_date |-> a.check_out_date,
     adults |-> "1", currency |-> "USD", gl |-> "us", hl |-> "en",
     api_key |-> "SERP_API_KEY"]

\* booking_flight's `go_params`
GoParams(a) ==
    [engine |-> "google_flights", departure_id |-> a.origin,
     arrival_id |-> a.destination, outbound_date |-> a.outbound_date,
     return_date |-> a.return_date, currency |-> "USD", hl |-> "en",
     api_key |-> "SERP_API_KEY"]

\* booking_flight's `back_params`
BackParams(a) ==
    [engine |-> "google_flights", departure_id |-> a.destination,
     arrival_id |-> a.origin, outbound_date |-> a.outbound_date,
     return_date |-> a.return_date, currency |-> "USD", hl |-> "en",
     api_key |-> "SERP_API_KEY"]

\* "# outbound \n "
OutboundMarker == <<"# outbound">>

OutboundPrefix == OutboundMarker \o <<" \n ">>

\* "\n # return \n"
ReturnMarker == <<"# return">>

ReturnPrefix == <<"\n ">> \o ReturnMarker \o <<" \n">>

\* booking_hotel's else branch
HotelFailureReturnsNone == PyNone

HotelFailure == PyStrLit(<<"request failed">>)

\* response.status_code == 200
IsSuccess(r) == r.status = 200

(***************************************************************************)
(* The tools each script registers, and their invocation caps.             *)
(***************************************************************************)
Tools(s) ==
    IF s = 4 THEN {"booking_hotel", "booking_flight"} ELSE {"get_random_destination"}

AllTools == {"get_random_destination", "booking_hotel", "booking_flight"}

\* @ai_function(max_invocations=3) on booking_hotel
booking_hotel_max_invocations == 3

\* @ai_function(max_invocations=3) on booking_flight
booking_flight_max_invocations == 3

\* plain functions carry no cap
Capped(f) == f \in {"booking_hotel", "booking_flight"}

max_invocations(f) ==
    IF f = "booking_hotel" THEN booking_hotel_max_invocations
    ELSE booking_flight_max_invocations

InvocationAlwaysAllowed(f, count) == TRUE

\* whether the wrapper still runs the function body
InvocationAllowed(f, count) == ~Capped(f) \/ count[f] < max_invocations(f)

ArgsOf(f) ==
    IF f = "booking_hotel" THEN HotelArgs
    ELSE IF f = "booking_flight" THEN FlightArgs
    ELSE {NoArgs}

FirstStep(f) ==
    IF f = "booking_hotel" THEN "h_get"
    ELSE IF f = "booking_flight" THEN "f_go"
    ELSE "d_pick"

(***************************************************************************)
(* The agent response and the text the driver prints.                      *)
(***************************************************************************)
TextContent(t) == [kind |-> "text", text |-> t]

FunctionCallContent == [kind |-> "function_call", text |-> ""]

FunctionResultContent == [kind |-> "function_result", text |-> ""]

Message(role, contents) == [role |-> role, contents |-> contents]

\* the contents the final assistant message may carry
FinalContents ==
    { <<TextContent("Your plan: ...")>>,
      <<TextContent("Your plan: ..."), TextContent("Anything else?")>>,
      <<TextContent("Anything else?"), TextContent("Your plan: ...")>> }

\* the call and result messages of n tool requests
RECURSIVE ToolMessages(_)
ToolMessages(n) ==
    IF n = 0 THEN <<>>
    ELSE ToolMessages(n - 1)
            \o << Message("assistant", <<FunctionCallContent>>),
                  Message("tool", <<FunctionResultContent>>) >>

ResponseMessages(n, final) == ToolMessages(n) \o <<Message("assistant", final)>>

\* a message's text: its text contents joined by " "
RECURSIVE MessageText(_)
MessageText(contents) ==
    IF contents = <<>> THEN <<>>
    ELSE LET head == contents[1]
             rest == MessageText(Tail(contents))
         IN  IF head.kind # "text" THEN rest
             ELSE IF rest = <<>> THEN <<head.text>>
             ELSE <<head.text, " ">> \o rest

\* response.text: the text of every message, concatenated
RECURSIVE ResponseText(_)
ResponseText(messages) ==
    IF messages = <<>> THEN <<>>
    ELSE MessageText(messages[1].contents) \o ResponseText(Tail(messages))

\* response.messages[-1]
LastMessage(messages) == messages[Len(messages)]

FirstMessageFirstText(messages) == <<messages[1].contents[1].text>>

\* response.messages[-1].contents[0].text
LastMessageFirstText(messages) == <<LastMessage(messages).contents[1].text>>

\* what each script's DISPLAY step prints
DisplayText(s, messages) ==
    IF s = 4 THEN ResponseText(messages) ELSE LastMessageFirstText(messages)

NothingPrinted == [done |-> FALSE, text |-> <<>>]

(***************************************************************************)
(* The driver, main().                                                     *)
(***************************************************************************)
Init ==
    /\ script \in Scripts
    /\ pc = "UNCONFIGURED"
    /\ trace = <<"UNCONFIGURED">>
    /\ thread = "none"
    /\ requests = 0
    /\ invocation_count = [f \in AllTools |-> 0]
    /\ tool = "none"
    /\ tpc = "idle"
    /\ args = NoArgs
    /\ gets = <<>>
    /\ inflight = 0
    /\ bodyRead = 0
    /\ hotel_response = NoResponse
    /\ go_response = NoResponse
    /\ back_response = NoResponse
    /\ result = <<>>
    /\ ret = NoOutcome
    /\ response = <<>>
    /\ printed = NothingPrinted

Goto(state) ==
    /\ pc' = state
    /\ trace' = Append(trace, state)

\* the chat client and the ChatAgent are constructed
Configure ==
    /\ pc = "UNCONFIGURED"
    /\ Goto("CONFIGURED")
    /\ UNCHANGED <<script, thread, response, printed, requests, invocation_count>>
    /\ UNCHANGED toolVars

\* thread = agent.get_new_thread(), scripts 3 and 4 only
GetNewThread ==
    /\ script \in {3, 4}
    /\ pc = "CONFIGURED"
    /\ thread' = "open"
    /\ Goto("THREAD_OPEN")
    /\ UNCHANGED <<script, response, printed, requests, invocation_count>>
    /\ UNCHANGED toolVars

SendReadyWithoutThread(s, p) == p = "CONFIGURED"

\* where the user message is prepared: script 1 has no thread
SendReady(s, p) == IF s = 1 THEN p = "CONFIGURED" ELSE p = "THREAD_OPEN"

\* the user message is prepared and echoed
Send ==
    /\ SendReady(script, pc)
    /\ Goto("SEND")
    /\ UNCHANGED <<script, thread, response, printed, requests, invocation_count>>
    /\ UNCHANGED toolVars

\* agent.run(...) is called and main() suspends
Run ==
    /\ pc = "SEND"
    /\ Goto("AWAIT_RESPONSE")
    /\ UNCHANGED <<script, thread, response, printed, requests, invocation_count>>
    /\ UNCHANGED toolVars

\* agent.run returns the completed response
AwaitReturns ==
    /\ pc = "AWAIT_RESPONSE"
    /\ tool = "none"
    /\ \E final \in FinalContents : response' = ResponseMessages(requests, final)
    /\ Goto("DISPLAY")
    /\ UNCHANGED <<script, thread, printed, requests, invocation_count>>
    /\ UNCHANGED toolVars

AwaitFailsCaughtAndPrinted ==
    /\ pc = "AWAIT_RESPONSE"
    /\ tool = "none"
    /\ pc' = "CRASHED"
    /\ printed' = [done |-> TRUE, text |-> <<"error">>]
    /\ UNCHANGED <<script, trace, thread, response, requests, invocation_count>>
    /\ UNCHANGED toolVars

\* agent.run raises: the remote model or the framework failed
AwaitFails ==
    /\ pc = "AWAIT_RESPONSE"
    /\ tool = "none"
    /\ pc' = "CRASHED"
    /\ UNCHANGED <<script, trace, thread, response, printed, requests, invocation_count>>
    /\ UNCHANGED toolVars

\* the answer text is extracted and printed; main() ends
Display ==
    /\ pc = "DISPLAY"
    /\ printed' = [done |-> TRUE, text |-> DisplayText(script, response)]
    /\ Goto("DONE")
    /\ UNCHANGED <<script, thread, response, requests, invocation_count>>
    /\ UNCHANGED toolVars

(***************************************************************************)
(* Tool dispatch while main() is suspended in agent.run.                   *)
(***************************************************************************)
FreshLocals ==
    /\ gets' = <<>>
    /\ inflight' = 0
    /\ bodyRead' = 0
    /\ hotel_response' = NoResponse
    /\ go_response' = NoResponse
    /\ back_response' = NoResponse
    /\ result' = <<>>

ToolsMayRunBeforeAwait(p) == p \in {"SEND", "AWAIT_RESPONSE"}

\* tools are reachable only through agent.run, while main() awaits it
ToolsMayRun(p) == p = "AWAIT_RESPONSE"

\* the remote model asks for tool f and the wrapper runs its body
InvokeTool ==
    /\ ToolsMayRun(pc)
    /\ tool = "none"
    /\ requests < MaxToolRequests
    /\ \E f \in Tools(script) :
        /\ InvocationAllowed(f, invocation_count)
        /\ invocation_count' = [invocation_count EXCEPT ![f] = @ + 1]
        /\ tool' = f
        /\ tpc' = FirstStep(f)
        /\ \E a \in ArgsOf(f) : args' = a
    /\ requests' = requests + 1
    /\ ret' = NoOutcome
    /\ FreshLocals
    /\ UNCHANGED driverVars

\* the remote model asks for tool f beyond its cap: the body does not run
RejectTool ==
    /\ ToolsMayRun(pc)
    /\ tool = "none"
    /\ requests < MaxToolRequests
    /\ \E f \in Tools(script) :
        /\ ~InvocationAllowed(f, invocation_count)
        /\ tool' = f
        /\ \E a \in ArgsOf(f) : args' = a
    /\ tpc' = "rejected"
    /\ requests' = requests + 1
    /\ ret' = Rejected
    /\ FreshLocals
    /\ UNCHANGED <<invocation_count>>
    /\ UNCHANGED driverVars

\* the outcome is handed to the remote model and the next request may come
ToolEnds ==
    /\ tpc \in {"returned", "raised", "rejected"}
    /\ pc = "AWAIT_RESPONSE"
    /\ tool' = "none"
    /\ tpc' = "idle"
    /\ args' = NoArgs
    /\ ret' = NoOutcome
    /\ FreshLocals
    /\ UNCHANGED <<requests, invocation_count>>
    /\ UNCHANGED driverVars

\* the exception a tool raised leaves agent.run and ends main()
ToolExceptionPropagates ==
    /\ tpc = "raised"
    /\ pc = "AWAIT_RESPONSE"
    /\ pc' = "CRASHED"
    /\ UNCHANGED <<script, trace, thread, response, printed, requests, invocation_count>>
    /\ UNCHANGED toolVars

Finish(outcome) ==
    /\ ret' = outcome
    /\ tpc' = IF outcome.kind = "raise" THEN "raised" ELSE "returned"

(***************************************************************************)
(* get_random_destination                                                  *)
(***************************************************************************)
GetRandomDestination ==
    /\ tool = "get_random_destination"
    /\ tpc = "d_pick"
    /\ \E i \in DestinationIndex(script) : Finish(PyListItem(destinations(script), i))
    /\ UNCHANGED <<tool, args, gets, inflight, bodyRead, hotel_response,
                   go_response, back_response, result>>
    /\ UNCHANGED <<requests, invocation_count>>
    /\ UNCHANGED driverVars

(***************************************************************************)
(* booking_hotel                                                           *)
(***************************************************************************)
\* what booking_hotel makes of the answer to its GET
HotelOutcome(o) ==
    IF o.net = "error" THEN Raised("ConnectionError")
    ELSE IF IsSuccess(o)
         THEN IF ~Parseable(o.body) THEN Raised("JSONDecodeError")
              ELSE IF ParsedType(o.body) # "dict" THEN Raised("TypeError")
              ELSE IF ~HasProperties(o.body) THEN Raised("KeyError")
              ELSE Returned(Properties(o.body))
         ELSE Returned(HotelFailure)

\* requests.get(serp_base_url, params=params) is sent
HotelSendGet ==
    /\ tool = "booking_hotel"
    /\ tpc = "h_get"
    /\ gets' = Append(gets, HotelParams(args))
    /\ inflight' = inflight + 1
    /\ tpc' = "h_wait"
    /\ UNCHANGED <<tool, args, bodyRead, hotel_response, go_response,
                   back_response, result, ret>>
    /\ UNCHANGED <<requests, invocation_count>>
    /\ UNCHANGED driverVars

\* the GET is answered and the rest of the body runs
HotelReceive ==
    /\ tool = "booking_hotel"
    /\ tpc = "h_wait"
    /\ \E o \in HttpOutcomes :
        /\ hotel_response' = o
        /\ bodyRead' = IF o.net = "ok" /\ IsSuccess(o) THEN bodyRead + 1 ELSE bodyRead
        /\ Finish(HotelOutcome(o))
    /\ inflight' = inflight - 1
    /\ UNCHANGED <<tool, args, gets, go_response, back_response, result>>
    /\ UNCHANGED <<requests, invocation_count>>
    /\ UNCHANGED driverVars

(***************************************************************************)
(* booking_flight                                                          *)
(***************************************************************************)
\* prefix + str(response)
LegSection(prefix, body) == prefix \o PyStr(Parsed(body)).text

\* whether the leg's branch raises: the GET failed, or json() cannot parse
LegRaises(o) == o.net = "error" \/ (IsSuccess(o) /\ ~Parseable(o.body))

LegException(o) == IF o.net = "error" THEN "ConnectionError" ELSE "JSONDecodeError"

LegResultWithSentinel(res, prefix, o) ==
    IF IsSuccess(o) THEN res \o LegSection(prefix, o.body) ELSE res \o <<"request failed">>

\* `result` after the leg's if/else
LegResult(res, prefix, o) ==
    IF IsSuccess(o) THEN res \o LegSection(prefix, o.body) ELSE res

\* requests.get(serp_base_url, params=go_params) is sent
FlightSendGo ==
    /\ tool = "booking_flight"
    /\ tpc = "f_go"
    /\ gets' = Append(gets, GoParams(args))
    /\ inflight' = inflight + 1
    /\ tpc' = "f_go_wait"
    /\ UNCHANGED <<tool, args, bodyRead, hotel_response, go_response,
                   back_response, result, ret>>
    /\ UNCHANGED <<requests, invocation_count>>
    /\ UNCHANGED driverVars

\* the outbound GET is answered; result = '' and the outbound branch run
FlightReceiveGo ==
    /\ tool = "booking_flight"
    /\ tpc = "f_go_wait"
    /\ \E o \in HttpOutcomes :
        /\ go_response' = o
        /\ bodyRead' = IF o.net = "ok" /\ IsSuccess(o) THEN bodyRead + 1 ELSE bodyRead
        /\ IF LegRaises(o)
           THEN /\ Finish(Raised(LegException(o)))
                /\ result' = <<>>
           ELSE /\ result' = LegResult(<<>>, OutboundPrefix, o)
                /\ tpc' = "f_back"
                /\ ret' = ret
    /\ inflight' = inflight - 1
    /\ UNCHANGED <<tool, args, gets, hotel_response, back_response>>
    /\ UNCHANGED <<requests, invocation_count>>
    /\ UNCHANGED driverVars

\* requests.get(serp_base_url, params=back_params) is sent
FlightSendBack ==
    /\ tool = "booking_flight"
    /\ tpc = "f_back"
    /\ gets' = Append(gets, BackParams(args))
    /\ inflight' = inflight + 1
    /\ tpc' = "f_back_wait"
    /\ UNCHANGED <<tool, args, bodyRead, hotel_response, go_response,
                   back_response, result, ret>>
    /\ UNCHANGED <<requests, invocation_count>>
    /\ UNCHANGED driverVars

\* the return GET is answered; the return branch runs and result is returned
FlightReceiveBack ==
    /\ tool = "booking_flight"
    /\ tpc = "f_back_wait"
    /\ \E o \in HttpOutcomes :
        /\ back_response' = o
        /\ bodyRead' = IF o.net = "ok" /\ IsSuccess(o) THEN bodyRead + 1 ELSE bodyRead
        /\ IF LegRaises(o)
           THEN /\ Finish(Raised(LegException(o)))
                /\ result' = result
           ELSE /\ result' = LegResult(result, ReturnPrefix, o)
                /\ Finish(Returned(PyStrLit(result')))
    /\ inflight' = inflight - 1
    /\ UNCHANGED <<tool, args, gets, hotel_response, go_response>>
    /\ UNCHANGED <<requests, invocation_count>>
    /\ UNCHANGED driverVars

(***************************************************************************)
(* The specification.                                                      *)
(***************************************************************************)
Next ==
    \/ Configure
    \/ GetNewThread
    \/ Send
    \/ Run
    \/ AwaitReturns
    \/ AwaitFails
    \/ Display
    \/ InvokeTool
    \/ RejectTool
    \/ ToolEnds
    \/ ToolExceptionPropagates
    \/ GetRandomDestination
    \/ HotelSendGet
    \/ HotelReceive
    \/ FlightSendGo
    \/ FlightReceiveGo
    \/ FlightSendBack
    \/ FlightReceiveBack

Spec == Init /\ [][Next]_vars

(***************************************************************************)
(* Properties.                                                             *)
(***************************************************************************)
\* the invocation of tool f has left the function body
Ended(f) == tool = f /\ tpc \in {"returned", "raised"}

Answered(r) == r.net = "ok"

IsString(outcome) == outcome.kind = "return" /\ outcome.type = "str"

Range(seq) == {seq[k] : k \in 1..Len(seq)}

\* C1: every tool function (get_random_destination, booking_hotel,
\* booking_flight) ends every invocation by returning a string, whatever the
\* HTTP transport did (200 with or without `properties`, 200 with an
\* unparseable body, a non-200 status, a network error); it never raises.
C1_ToolsAlwaysReturnString ==
    \A f \in AllTools : Ended(f) => IsString(ret)

C3_HotelReturnsSerializedProperties ==
    ( /\ Ended("booking_hotel")
      /\ Answered(hotel_response)
      /\ hotel_response.status = 200
      /\ Parseable(hotel_response.body)
      /\ HasProperties(hotel_response.body) )
        => /\ IsString(ret)
           /\ ret.text = Properties(hotel_response.body).text

\* C4: booking_flight, when both GETs are answered 200, returns a string that
\* holds the `# outbound` section (marker, then the outbound data) entirely
\* before the `# return` section (marker, then the return data).
C4_FlightBothLegsInOrder ==
    ( /\ Ended("booking_flight")
      /\ Answered(go_response) /\ go_response.status = 200
      /\ Answered(back_response) /\ back_response.status = 200 )
        => /\ IsString(ret)
           /\ \E i, j \in 1..Len(ret.text) :
                /\ OccursAt(OutboundMarker, ret.text, i)
                /\ OccursAt(ReturnMarker, ret.text, j)
                /\ i < j
           /\ ret.text = (OutboundPrefix \o Parsed(go_response.body).text)
                            \o (ReturnPrefix \o Parsed(back_response.body).text)

\* C5: booking_flight treats the legs independently: for every pair of status
\* codes the return GET is issued whatever the outbound status was, and a
\* leg's marker and data are in the returned string if and only if that leg's
\* own GET was answered 200.
C5_FlightLegsIndependent ==
    /\ ( /\ Ended("booking_flight") /\ Answered(go_response) )
        => /\ Len(gets) = 2
           /\ back_response # NoResponse
    /\ ( /\ Ended("booking_flight")
         /\ Answered(go_response)
         /\ Answered(back_response) )
        => /\ IsString(ret)
           /\ Contains(OutboundPrefix \o Parsed(go_response.body).text, ret.text)
                <=> go_response.status = 200
           /\ Contains(OutboundMarker, ret.text) <=> go_response.status = 200
           /\ Contains(ReturnPrefix \o Parsed(back_response.body).text, ret.text)
                <=> back_response.status = 200
           /\ Contains(ReturnMarker, ret.text) <=> back_response.status = 200

\* C6: every invocation of booking_flight issues exactly two GETs, one after
\* the other: first departure_id=origin, arrival_id=destination, then
\* departure_id=destination, arrival_id=origin, the second only after the
\* first was answered, all other parameters being the same in both.
C6_FlightTwoGetsInOrder ==
    /\ tool = "booking_flight" =>
        /\ inflight <= 1
        /\ Len(gets) <= 2
        /\ Len(gets) = 2 => go_response # NoResponse
    /\ (Ended("booking_flight") /\ Answered(go_response)) =>
        /\ Len(gets) = 2
        /\ gets[1].departure_id = args.origin
        /\ gets[1].arrival_id = args.destination
        /\ gets[2].departure_id = args.destination
        /\ gets[2].arrival_id = args.origin
        /\ \A k \in {"engine", "outbound_date", "return_date", "currency", "hl", "api_key"} :
                gets[1][k] = gets[2][k]
        /\ gets[1].currency = "USD"

\* C7: get_random_destination, in scripts 1 and 3, always returns a member of
\* the fixed list of 10 destinations, for every index randint(0, 9) can give
\* (never out of range), and every one of the 10 is a possible result.
C7_DestinationInFixedList ==
    /\ \A s \in {1, 3} :
        /\ Len(destinations(s)) = 10
        /\ Cardinality(Range(destinations(s))) = 10
        /\ DestinationIndex(s) = 0..9
        /\ {PyListItem(destinations(s), i).text : i \in DestinationIndex(s)}
              = {<<d>> : d \in Range(destinations(s))}
    /\ destinations01 = destinations03
    /\ Ended("get_random_destination")
        => /\ IsString(ret)
           /\ \E d \in Range(destinations(script)) : ret.text = <<d>>

C7_Witness ==
    /\ Ended("get_random_destination")
    /\ script = 3
    /\ ret = [kind |-> "return", type |-> "str", text |-> <<"Bali, Indonesia">>]

Order(s) ==
    IF s = 1
    THEN <<"UNCONFIGURED", "CONFIGURED", "SEND", "AWAIT_RESPONSE", "DISPLAY", "DONE">>
    ELSE <<"UNCONFIGURED", "CONFIGURED", "THREAD_OPEN", "SEND", "AWAIT_RESPONSE",
           "DISPLAY", "DONE">>

IsPrefix(a, b) == Len(a) <= Len(b) /\ \A k \in 1..Len(a) : a[k] = b[k]

\* C9: every run follows UNCONFIGURED -> CONFIGURED -> [THREAD_OPEN] ->
\* (SEND -> AWAIT_RESPONSE -> DISPLAY)* -> DONE: THREAD_OPEN is skipped by
\* script 1 and occurs once before the first SEND in scripts 3 and 4, DISPLAY
\* comes only after the AWAIT_RESPONSE of the same SEND completed, and no
\* state is visited out of this order.
C9_DriverStateOrder ==
    /\ IsPrefix(trace, Order(script))
    /\ pc = trace[Len(trace)] \/ (pc = "CRASHED" /\ trace[Len(trace)] = "AWAIT_RESPONSE")
    /\ thread = "open" <=> "THREAD_OPEN" \in Range(trace)
    /\ script = 1 => thread = "none"
    /\ (script # 1 /\ "SEND" \in Range(trace)) => thread = "open"
    /\ pc \in {"DISPLAY", "DONE"} => (response # <<>> /\ tool = "none")
    /\ printed.done <=> pc = "DONE"

C9_Witness ==
    /\ pc = "DONE"
    /\ script = 4
    /\ trace = <<"UNCONFIGURED", "CONFIGURED", "THREAD_OPEN", "SEND", "AWAIT_RESPONSE",
                 "DISPLAY", "DONE">>
    /\ requests > 0

\* C10 as stated: in every script the text printed by DISPLAY is the text of
\* the first content element of the last message of the response.
C10_PrintsLastMessageFirstContent ==
    printed.done => printed.text = <<response[Len(response)].contents[1].text>>

\* C10 amended: scripts 1 and 3 print the text of the first content element of
\* the last message, for every completed response (with or without tool calls,
\* with one or several content elements); script 4 prints the response's text
\* property instead, which holds the text of every text content element.
C10_PrintsLastMessageFirstContentOr04Text ==
    printed.done =>
        /\ script \in {1, 3}
            => printed.text = <<response[Len(response)].contents[1].text>>
        /\ script = 4
            => \A c \in Range(response[Len(response)].contents) :
                    c.kind = "text" => c.text \in Range(printed.text)

C10_Witness ==
    /\ printed.done
    /\ script = 3
    /\ Len(response) > 1
    /\ Len(response[Len(response)].contents) > 1
    /\ printed.text = <<"Anything else?">>

\* the tool body is between its first statement and its return or raise
Executing == tpc \in {"d_pick", "h_get", "h_wait", "f_go", "f_go_wait", "f_back", "f_back_wait"}

\* a GET has been sent and the body blocks on its answer
Blocked == tpc \in {"h_wait", "f_go_wait", "f_back_wait"}

Count(x, seq) == Cardinality({k \in 1..Len(seq) : seq[k] = x})

C14_FlightBothFailedReturnsEmpty ==
    ( /\ Ended("booking_flight")
      /\ Answered(go_response) /\ go_response.status # 200
      /\ Answered(back_response) /\ back_response.status # 200 )
        => /\ ret = [kind |-> "return", type |-> "str", text |-> <<>>]
           /\ ~Contains(OutboundMarker, ret.text)
           /\ ~Contains(ReturnMarker, ret.text)
           /\ ~Contains(<<"request failed">>, ret.text)
           /\ Len(gets) = 2
           /\ bodyRead = 0

C14_Witness ==
    /\ Ended("booking_flight")
    /\ go_response = [net |-> "ok", status |-> 404, body |-> "obj_no_props"]
    /\ back_response = [net |-> "ok", status |-> 201, body |-> "array"]
    /\ ret = [kind |-> "return", type |-> "str", text |-> <<>>]

====
